---- MODULE Spec2Model ----
(***************************************************************************)
(* Source registry (RepoConfig), catalog merge (Indexer.refresh_all) and   *)
(* installed set (FontManagerGUI.installed) of the font manager,           *)
(* src/font_manager.py, with the documents they are saved in.              *)
(*                                                                         *)
(* Spec, SpecKey and SpecReadd run the operations one after the other;     *)
(* SpecConc runs refresh_all on threads, step by step; SpecInst runs the   *)
(* updates of the installed set on threads; SpecCrash kills the process    *)
(* inside save_json and starts it again; SpecSnap changes the registry     *)
(* while a refresh runs; SpecDown takes a download thread through its      *)
(* selection, font by font.                                                *)
(*                                                                         *)
(* Python values are modelled as follows.                                  *)
(*   - A str that the code builds or rewrites character by character (a    *)
(*     font id, family or name) is a sequence of one-character strings;    *)
(*     other strs (owner, repo, file names) are TLA+ strings.  A relative  *)
(*     path is the sequence of its components.                             *)
(*   - dict.get(k) is an option: Absent (the key is missing, Python None)  *)
(*     or Some(v).                                                         *)
(*   - A dict is the sequence of its items in insertion order, which is    *)
(*     the order json.dumps writes them in.                                *)
(***************************************************************************)
EXTENDS Naturals, Sequences, FiniteSets, TLC

VARIABLES
    repos,      \* RepoConfig.repos: the in-memory registry list
    reposDisk,  \* the document data/repos.json
    index,      \* Indexer.index: the in-memory catalog
    indexDisk,  \* the document data/index.json
    remote,     \* the descriptor document each (owner, repo, path) serves
    call,       \* the last operation called and its arguments
    ret,        \* how that operation ended
    chain,      \* how far a refresh, remove, re-add, refresh sequence has come
    heap,       \* the contents of the dict objects catalogs are held in
    indexObj,   \* the dict object self.index refers to
    lock,       \* Indexer.lock: the thread inside "with self.lock", or Nobody
    thr,        \* the refresh threads: where each is in refresh_all, its locals
    held,       \* the dict object get_index returned to a reader, or NoObj
    installed,      \* FontManagerGUI.installed: the in-memory installed set
    installedDisk,  \* the document data/installed.json
    job,            \* the download threads: where each is, its locals
    un,             \* confirm_uninstall on the GUI thread: where it is, its locals
    dl,             \* a download thread going through its selection, font by font
    proc        \* the process: alive or killed, and the save_json it was killed in

\* The refresh threads and the objects they share.
conc == <<heap, indexObj, lock, thr, held>>

\* The installed set and the handlers that update it.
inst == <<installed, installedDisk, job, un>>

\* What the specifications of the sequential operations leave alone.
aux == <<chain, conc, inst, dl, proc>>

\* The catalog, and what neither a refresh thread nor an update of the
\* installed set changes.
catalog == <<index, indexDisk>>
others == <<repos, reposDisk, remote, call, ret, chain, dl, proc>>

vars == <<repos, reposDisk, index, indexDisk, remote, call, ret, aux>>

(***************************************************************************)
(* Bounds of the model.                                                    *)
(***************************************************************************)
\* Longest font list in a descriptor of the first owner.
MaxFonts == 2

Owners == {"a", "b"}
RepoNames == {"x"}
DescriptorPaths == {"fonts.json"}

\* The places a descriptor can be downloaded from.
Targets == Owners \X RepoNames \X DescriptorPaths

(***************************************************************************)
(* Options: the result of dict.get(k).                                     *)
(***************************************************************************)
Absent == <<>>
Some(v) == <<v>>
\* dict.get(k, default)
Get(opt, default) == IF opt = Absent THEN default ELSE opt[1]

(***************************************************************************)
(* Persisted documents: load_json and save_json.                           *)
(***************************************************************************)
\* The paths of the three documents.
REPOS_CONFIG == "repos.json"
INSTALLED_FILE == "installed.json"
\* The catalog written to the path of the installed set.
INDEX_FILE_IsInstalled == "installed.json"
INDEX_FILE == "index.json"

\* A file that does not exist.
NoFile(empty) == [exists |-> FALSE, parses |-> FALSE, data |-> empty]
\* A file whose text is not JSON.
Garbled(empty) == [exists |-> TRUE, parses |-> FALSE, data |-> empty]
\* The file path.write_text(json.dumps(data)) leaves.
save_json(data) == [exists |-> TRUE, parses |-> TRUE, data |-> data]

\* load_json that takes what the file holds whether json.loads accepts it or
\* not.
LoadWithoutDefault(doc, default) == doc.data

load_json(doc, default) ==
    IF doc.exists
    THEN IF doc.parses THEN doc.data ELSE default
    ELSE default

\* The file a process killed inside path.write_text(text) can leave when it
\* got as far as opening the file: empty or a prefix of the text, which
\* json.loads rejects.  data is what was being written.
Truncated(doc) == [exists |-> TRUE, parses |-> FALSE, data |-> doc.data]

\* What a process killed somewhere inside save_json leaves of a document: the
\* old file (killed before the open), a truncated one, or the new one.
Interrupted(old, new) == {old, Truncated(new), new}

\* What the document at the path file holds after save_json(path, data), cur
\* being what it held before: another path leaves it alone.
Written(cur, file, path, data) == IF path = file THEN save_json(data) ELSE cur

(***************************************************************************)
(* Raw font entries of a descriptor.  A relative path ("otf/IR.otf") is    *)
(* the sequence of its components (<<"otf", "IR.otf">>).                   *)
(***************************************************************************)
Dict(id, name, family, style, files) ==
    [isdict |-> TRUE, id |-> id, name |-> name, family |-> family,
     style |-> style, version |-> Absent, license |-> Absent, files |-> files]

\* An element of the "fonts" list that is not a JSON object (a number, say):
\* f.get raises AttributeError on it.
NonDict ==
    [isdict |-> FALSE, id |-> Absent, name |-> Absent, family |-> Absent,
     style |-> Absent, version |-> Absent, license |-> Absent, files |-> Absent]

Inter == <<"I", "n", "t", "e", "r">>
Regular == <<"R", "e", "g", "u", "l", "a", "r">>
Inter_Regular == Inter \o <<"_">> \o Regular

\* {"family": "Inter", "name": "Regular", "files": ["Inter-Regular.ttf"]}
InterRegular ==
    Dict(Absent, Some(Regular), Some(Inter), Absent, Some(<< <<"Inter-Regular.ttf">> >>))
\* {"id": "Inter_Regular", "name": "Regular", "style": "normal", "files": ["IR.otf", "IR.woff"]}
InterById ==
    Dict(Some(Inter_Regular), Some(Regular), Absent, Some(<<"n">>),
         Some(<< <<"IR.otf">>, <<"IR.woff">> >>))
\* {"id": "", "family": "Noto Sans"}
NotoSans ==
    Dict(Some(<<>>), Absent, Some(<<"N", "o", "t", "o", " ", "S", "a", "n", "s">>),
         Absent, Absent)

FontPool == {InterRegular, InterById, NotoSans, NonDict}

RECURSIVE SeqsUpTo(_, _)
SeqsUpTo(S, n) ==
    IF n = 0 THEN {<<>>}
    ELSE LET shorter == SeqsUpTo(S, n - 1)
         IN  shorter \cup {Append(s, x) : s \in shorter, x \in S}

\* A downloaded descriptor: text that json.loads rejects, or {"fonts": [...]}.
NotJson == [json |-> FALSE, fonts |-> <<>>]
Descriptor(fonts) == [json |-> TRUE, fonts |-> fonts]

LongDescriptors ==
    {NotJson} \cup {Descriptor(fs) : fs \in SeqsUpTo(FontPool, MaxFonts)}

\* Owner "a" serves font lists of every length up to MaxFonts, the other
\* owner lists of at most one entry; the registry holds them in either order.
ShortDescriptors ==
    {NotJson, Descriptor(<<>>)} \cup {Descriptor(<<f>>) : f \in FontPool}

(***************************************************************************)
(* RepoConfig.                                                             *)
(***************************************************************************)
RepoKey(owner, repo) == owner \o "/" \o repo

RepoEntry(owner, repo, descriptor, enabled) ==
    [key |-> RepoKey(owner, repo), owner |-> owner, repo |-> repo,
     descriptor |-> descriptor, enabled |-> enabled]

\* add_repo without its check.
KeyNeverExists(rs, key) == FALSE

\* any(r["key"] == key for r in self.repos)
KeyExists(rs, key) == \E i \in 1..Len(rs) : rs[i].key = key

\* RepoConfig.save called before the list is rebound: the document keeps the
\* registry as it was without its last record.
SaveBeforeAppend(rs) ==
    save_json(IF rs = <<>> THEN rs ELSE SubSeq(rs, 1, Len(rs) - 1))

\* RepoConfig.save: save_json(REPOS_CONFIG, self.repos)
save(rs) == save_json(rs)

\* RepoConfig.__init__: self.repos = load_json(REPOS_CONFIG, [])
RepoConfig(doc) == load_json(doc, <<>>)

\* The filter with == for !=.
OnlyKey(rs, key) ==
    LET keep(r) == r.key = key IN SelectSeq(rs, keep)

\* [r for r in self.repos if r["key"] != key]
WithoutKey(rs, key) ==
    LET keep(r) == r.key # key IN SelectSeq(rs, keep)

(***************************************************************************)
(* Indexer.refresh_all.                                                    *)
(***************************************************************************)
\* str.replace(old, new) for one-character old and new.
Replace(s, old, new) ==
    [i \in 1..Len(s) |-> IF s[i] = old THEN new ELSE s[i]]

\* The id without .replace(" ", "_").
FontIdSpacesKept(f) ==
    IF f.id # Absent /\ f.id[1] # <<>>
    THEN f.id[1]
    ELSE Get(f.family, <<>>) \o <<"_">> \o Get(f.name, <<>>)

\* f.get("id") or f"{f.get('family','')}_{f.get('name','')}".replace(" ", "_")
FontId(f) ==
    IF f.id # Absent /\ f.id[1] # <<>>
    THEN f.id[1]
    ELSE Replace(Get(f.family, <<>>) \o <<"_">> \o Get(f.name, <<>>), " ", "_")

Meta(f) ==
    [id |-> FontId(f), name |-> f.name, family |-> f.family, style |-> f.style,
     version |-> f.version, license |-> f.license, files |-> Get(f.files, <<>>)]

SourceRecord(r, f) ==
    [repo_key |-> r.key, owner |-> r.owner, repo |-> r.repo,
     descriptor |-> r.descriptor, files |-> Get(f.files, <<>>)]

HasFid(idx, fid) == \E i \in 1..Len(idx) : idx[i].fid = fid

\* An entry whose meta every raw entry of the identity overwrites.
SetDefaultOverwrites(idx, fid, meta) ==
    IF HasFid(idx, fid)
    THEN [i \in 1..Len(idx) |->
             IF idx[i].fid = fid THEN [idx[i] EXCEPT !.meta = meta] ELSE idx[i]]
    ELSE Append(idx, [fid |-> fid, meta |-> meta, sources |-> <<>>])

\* new_index.setdefault(fid, {"meta": meta, "sources": []})
SetDefault(idx, fid, meta) ==
    IF HasFid(idx, fid)
    THEN idx
    ELSE Append(idx, [fid |-> fid, meta |-> meta, sources |-> <<>>])

\* One pass of the body of "for f in fonts" over a JSON object f.
AddFont(idx, r, f) ==
    LET fid == FontId(f)
        d   == SetDefault(idx, fid, Meta(f))
    IN  [i \in 1..Len(d) |->
            IF d[i].fid = fid
            THEN [d[i] EXCEPT !.sources = Append(@, SourceRecord(r, f))]
            ELSE d[i]]

\* "for f in fonts" inside the try block: the first element that raises ends
\* the loop, and the except clause keeps what new_index holds by then.
RECURSIVE FoldFonts(_, _, _)
FoldFonts(idx, r, fonts) ==
    IF fonts = <<>> THEN idx
    ELSE IF ~Head(fonts).isdict THEN idx
    ELSE FoldFonts(AddFont(idx, r, Head(fonts)), r, Tail(fonts))

Target(r) == <<r.owner, r.repo, r.descriptor>>

\* The try block for one registry record: download, json.loads, the loop.
\* down is the set of targets whose download raises in this pass.
FoldSource(idx, r, rem, down) ==
    IF ~r.enabled THEN idx
    ELSE IF Target(r) \in down THEN idx
    ELSE IF ~rem[Target(r)].json THEN idx
    ELSE FoldFonts(idx, r, rem[Target(r)].fonts)

\* The try block of r ends in the except clause.
Raises(r, rem, down) ==
    /\ r.enabled
    /\ \/ Target(r) \in down
       \/ ~rem[Target(r)].json
       \/ \E j \in 1..Len(rem[Target(r)].fonts) : ~rem[Target(r)].fonts[j].isdict

\* FoldRepos with "break" for "continue" in the except clause.
RECURSIVE FoldReposBreak(_, _, _, _)
FoldReposBreak(idx, rs, rem, down) ==
    IF rs = <<>> THEN idx
    ELSE IF Raises(Head(rs), rem, down) THEN FoldSource(idx, Head(rs), rem, down)
    ELSE FoldReposBreak(FoldSource(idx, Head(rs), rem, down), Tail(rs), rem, down)

\* "for r in list(self.repo_cfg.repos)": every record is tried, whatever
\* happened to the ones before it.
RECURSIVE FoldRepos(_, _, _, _)
FoldRepos(idx, rs, rem, down) ==
    IF rs = <<>> THEN idx
    ELSE FoldRepos(FoldSource(idx, Head(rs), rem, down), Tail(rs), rem, down)

\* The fold starting from the catalog of the last refresh.
NewIndexKeepsOld(old) == old

\* new_index = {}: the mapping the fold starts from, whatever the old index.
NewIndex(old) == <<>>

(***************************************************************************)
(* Initial state: the documents on disk when the program starts.           *)
(***************************************************************************)
\* No refresh yet.
NoChain ==
    [stage |-> 0, key |-> "", descriptor |-> "", down |-> {}, enabled |-> FALSE,
     last |-> FALSE]

\* The threads refresh_index_threaded can have running at a time, and the
\* dict objects that can be referred to at a time: self.index, new_index of
\* each thread and the one a reader holds.
Threads == {"t1", "t2"}
Objs == {"d1", "d2", "d3", "d4"}
NoObj == ""
Nobody == ""

\* A thread that is not inside refresh_all.
IdleThread == [pc |-> "idle", snap |-> <<>>, pos |-> 0, obj |-> NoObj, down |-> {}]

\* No thread is running; self.index refers to the loaded catalog.
ConcInit ==
    /\ indexObj = "d1"
    /\ heap = [o \in Objs |-> IF o = indexObj THEN index ELSE <<>>]
    /\ lock = Nobody
    /\ thr = [t \in Threads |-> IdleThread]
    /\ held = NoObj

\* No thread is ever started: the catalog is the variable index alone.
ConcUnused ==
    /\ indexObj = "d1"
    /\ heap = [o \in Objs |-> <<>>]
    /\ lock = Nobody
    /\ thr = [t \in Threads |-> IdleThread]
    /\ held = NoObj

\* The download threads on_download_selected can have running at a time.
Workers == {"w1", "w2"}

\* A thread that is not updating the installed set.
IdleJob == [pc |-> "idle", todo |-> <<>>, text |-> {}]
\* No uninstall is being confirmed.
IdleUn == [pc |-> "idle", text |-> {}]

\* FontManagerGUI.__init__: self.installed = load_json(INSTALLED_FILE, {}).
\* The installed set is the set of the values of the dict, one per file name.
InstInit(docs) ==
    /\ installedDisk \in docs
    /\ installed = load_json(installedDisk, {})
    /\ job = [w \in Workers |-> IdleJob]
    /\ un = IdleUn

\* No download thread is going through a selection.
IdleDl ==
    [pc |-> "idle", fids |-> <<>>,
     last |-> [outcome |-> "none", info |-> <<>>, chosen |-> <<>>, fails |-> {}]]

\* The process runs and has not been killed before.
Running == [alive |-> TRUE, file |-> "", old |-> NoFile(<<>>), new |-> NoFile(<<>>)]

\* Nothing but the registry and the catalog is in use.
AuxInit ==
    chain = NoChain /\ ConcUnused /\ InstInit({NoFile({})}) /\ dl = IdleDl /\ proc = Running

DistinctKeys(rs) ==
    \A i, j \in 1..Len(rs) : rs[i].key = rs[j].key => i = j

RepoEntries ==
    {RepoEntry(o, n, d, e) :
        o \in Owners, n \in RepoNames, d \in DescriptorPaths, e \in BOOLEAN}

\* The registries repos.json can hold: written by an earlier run, with the
\* enabled flags as the user left them in the file.
Registries ==
    {rs \in SeqsUpTo(RepoEntries, Cardinality(Owners \X RepoNames)) : DistinctKeys(rs)}

\* A catalog left by an earlier run, from sources and descriptors that may
\* since have changed.
StaleCatalog ==
    FoldSource(<<>>, RepoEntry("a", "x", "fonts.json", TRUE),
               [t \in Targets |-> Descriptor(<<InterById, NotoSans>>)], {})

RegistryDocs == {NoFile(<<>>)} \cup {save_json(rs) : rs \in Registries}
CatalogDocs == {NoFile(<<>>), Garbled(<<>>), save_json(StaleCatalog)}

Init ==
    /\ reposDisk \in RegistryDocs
    /\ repos = load_json(reposDisk, <<>>)
    /\ indexDisk \in CatalogDocs
    /\ index = load_json(indexDisk, <<>>)
    /\ \E long \in LongDescriptors, short \in ShortDescriptors :
          remote = [t \in Targets |-> IF t[1] = "a" THEN long ELSE short]
    /\ call = [op |-> "init", key |-> "", down |-> {}, repeat |-> FALSE, had |-> {},
               len |-> 0]
    /\ ret = "none"
    /\ AuxInit

(***************************************************************************)
(* Operations.  Each records in call what was called: the operation, its   *)
(* arguments (for refresh_all, the downloads that raised), whether it      *)
(* repeats the call before it, and, as of when it started, the sources the *)
(* catalog held records of and the length of the registry.                 *)
(***************************************************************************)
\* The repo_keys of the source records of a catalog.
SourceKeys(idx) ==
    UNION {{idx[i].sources[s].repo_key : s \in 1..Len(idx[i].sources)} :
              i \in 1..Len(idx)}

Called(op, key, down) ==
    [op |-> op, key |-> key, down |-> down,
     repeat |-> call.op = op /\ call.key = key /\ call.down = down,
     had |-> SourceKeys(index), len |-> Len(repos)]

add_repo(owner, repo, descriptor) ==
    LET key == RepoKey(owner, repo)
    IN  /\ call' = Called("add_repo", key, {})
        /\ IF KeyExists(repos, key)
           THEN /\ ret' = "ValueError"
                /\ UNCHANGED <<repos, reposDisk>>
           ELSE /\ repos' = Append(repos, RepoEntry(owner, repo, descriptor, TRUE))
                /\ reposDisk' = save(repos')
                /\ ret' = "returned"
        /\ UNCHANGED <<index, indexDisk, remote>>

remove_repo(key) ==
    /\ call' = Called("remove_repo", key, {})
    /\ repos' = WithoutKey(repos, key)
    /\ reposDisk' = save(repos')
    /\ ret' = "returned"
    /\ UNCHANGED <<index, indexDisk, remote>>

refresh_all(down) ==
    /\ call' = Called("refresh_all", "", down)
    /\ index' = FoldRepos(NewIndex(index), repos, remote, down)
    /\ indexDisk' = Written(indexDisk, "index.json", INDEX_FILE, index')
    /\ reposDisk' = Written(reposDisk, REPOS_CONFIG, INDEX_FILE, index')
    /\ installedDisk' = Written(installedDisk, INSTALLED_FILE, INDEX_FILE, index')
    /\ ret' = "returned"
    /\ UNCHANGED <<repos, remote>>

Next ==
    \/ \E o \in Owners, n \in RepoNames, d \in DescriptorPaths :
          add_repo(o, n, d) /\ UNCHANGED aux
    \/ \E o \in Owners, n \in RepoNames :
          remove_repo(RepoKey(o, n)) /\ UNCHANGED aux
    \/ \E down \in SUBSET Targets :
          refresh_all(down) /\ UNCHANGED aux

Spec == Init /\ [][Next]_vars

(***************************************************************************)
(* A second specification for the identity derivation: the same            *)
(* operations, started with descriptors whose entries range over the       *)
(* combinations of id, family and name.                                    *)
(***************************************************************************)
KeyIds == {Absent, Some(<<>>), Some(<<"k", " ", "1">>), Some(<<"a", "_", "b", "_">>)}
KeyFamilies ==
    {Absent, Some(<<>>), Some(<<"a">>), Some(<<"a", " ", "b">>), Some(<<"a", "_", "b">>)}
KeyNames == {Absent, Some(<<"b", "_">>), Some(<<" ">>)}
KeyFiles == {Absent, Some(<< <<"f.ttf">> >>)}

KeyFonts ==
    {Dict(id, name, family, Absent, files) :
        id \in KeyIds, name \in KeyNames, family \in KeyFamilies, files \in KeyFiles}

\* Owner "a" lists the entry alone or after another one, owner "b" alone.
InitKey ==
    /\ reposDisk \in {save_json(rs) : rs \in {r \in Registries :
                                                \A i \in 1..Len(r) : r[i].enabled}}
    /\ repos = load_json(reposDisk, <<>>)
    /\ indexDisk = NoFile(<<>>)
    /\ index = load_json(indexDisk, <<>>)
    /\ \E f \in KeyFonts, before \in {<<>>} \cup {<<g>> : g \in FontPool \ {NonDict}} :
          remote = [t \in Targets |->
                       IF t[1] = "a" THEN Descriptor(before \o <<f>>)
                       ELSE Descriptor(<<f>>)]
    /\ call = [op |-> "init", key |-> "", down |-> {}, repeat |-> FALSE, had |-> {},
               len |-> 0]
    /\ ret = "none"
    /\ AuxInit

SpecKey == InitKey /\ [][Next]_vars

(***************************************************************************)
(* A third specification for removing a source and adding it again: the    *)
(* same operations, with chain following the calls                         *)
(*     refresh_all, remove_repo(key), add_repo(same key and path),         *)
(*     refresh_all                                                         *)
(* made one after the other with the same downloads raising in both        *)
(* refreshes.  Stage n means the first n of them have just been made;      *)
(* enabled and last say what the removed record was.                       *)
(***************************************************************************)
\* The registry record of a key (the key is registered).
RecordOf(rs, key) == rs[CHOOSE i \in 1..Len(rs) : rs[i].key = key]

ChainRefresh(down) ==
    IF chain.stage = 3 /\ down = chain.down
    THEN [chain EXCEPT !.stage = 4]
    ELSE [NoChain EXCEPT !.stage = 1, !.down = down]

ChainRemove(key) ==
    IF chain.stage \in {1, 4} /\ KeyExists(repos, key)
    THEN [stage |-> 2, key |-> key, descriptor |-> RecordOf(repos, key).descriptor,
          down |-> chain.down, enabled |-> RecordOf(repos, key).enabled,
          last |-> repos[Len(repos)].key = key]
    ELSE NoChain

ChainAdd(owner, repo, descriptor) ==
    IF /\ chain.stage = 2
       /\ RepoKey(owner, repo) = chain.key /\ descriptor = chain.descriptor
       /\ ~KeyExists(repos, chain.key)
    THEN [chain EXCEPT !.stage = 3]
    ELSE NoChain

\* Both owners serve a list of at most one entry.
InitReadd ==
    /\ reposDisk \in RegistryDocs
    /\ repos = load_json(reposDisk, <<>>)
    /\ indexDisk = NoFile(<<>>)
    /\ index = load_json(indexDisk, <<>>)
    /\ remote \in [Targets -> ShortDescriptors]
    /\ call = [op |-> "init", key |-> "", down |-> {}, repeat |-> FALSE, had |-> {},
               len |-> 0]
    /\ ret = "none"
    /\ AuxInit

NextReadd ==
    \/ \E o \in Owners, n \in RepoNames, d \in DescriptorPaths :
          /\ add_repo(o, n, d) /\ chain' = ChainAdd(o, n, d)
          /\ UNCHANGED <<conc, inst, dl, proc>>
    \/ \E o \in Owners, n \in RepoNames :
          /\ remove_repo(RepoKey(o, n)) /\ chain' = ChainRemove(RepoKey(o, n))
          /\ UNCHANGED <<conc, inst, dl, proc>>
    \/ \E down \in SUBSET Targets :
          /\ refresh_all(down) /\ chain' = ChainRefresh(down)
          /\ UNCHANGED <<conc, inst, dl, proc>>

SpecReadd == InitReadd /\ [][NextReadd]_vars

(***************************************************************************)
(* A fourth specification for refreshes on threads.  Every call of         *)
(* refresh_index_threaded starts a thread that runs refresh_all; the GUI   *)
(* thread goes on adding and removing sources and reading the catalog.     *)
(* The steps of refresh_all are: new_index = {} and the copy of the        *)
(* registry list; the try block of one registry record; "with self.lock"   *)
(* and the assignment to self.index; save_json and the end of the with     *)
(* block.  A dict is an object: heap holds what each object contains, and  *)
(* self.index, new_index and the value get_index returned refer to         *)
(* objects.                                                                *)
(***************************************************************************)
\* The objects something refers to.
Live(ix, th, hd) == ({ix, hd} \cup {th[t].obj : t \in Threads}) \ {NoObj}

\* Objects nothing refers to are gone.
Collect(h, ix, th, hd) ==
    [o \in Objs |-> IF o \in Live(ix, th, hd) THEN h[o] ELSE <<>>]

\* new_index = self.index: the fold fills the published dict.
SameDict(cur, free) == cur

\* new_index = {}: an object of its own.
NewDict(cur, free) == free

\* for r in self.repo_cfg.repos: the loop goes over the list the registry
\* holds by now.
IteratedLive(snap, live) == live

\* for r in list(self.repo_cfg.repos): the loop goes over the copy made when
\* it started, whatever the registry holds by now.
Iterated(snap, live) == snap

\* refresh_index_threaded, then line 78 and the list(...) of line 79.  snap is
\* the copy of the registry list, down the downloads that have raised so far.
Start(t) ==
    /\ thr[t].pc = "idle"
    /\ LET o == NewDict(indexObj, CHOOSE d \in Objs : d \notin Live(indexObj, thr, held))
       IN  /\ thr' = [thr EXCEPT ![t] = [pc |-> "fold", snap |-> repos, pos |-> 1,
                                         obj |-> o, down |-> {}]]
           /\ heap' = [heap EXCEPT ![o] = NewIndex(index)]
    /\ index' = heap'[indexObj]
    /\ UNCHANGED <<others, inst, indexDisk, indexObj, lock, held>>

\* One pass of "for r in list(self.repo_cfg.repos)"; raises says whether the
\* download of this record's descriptor raises.
FoldStep(t, raises) ==
    /\ thr[t].pc = "fold"
    /\ thr[t].pos <= Len(Iterated(thr[t].snap, repos))
    /\ LET r == Iterated(thr[t].snap, repos)[thr[t].pos]
           down == IF raises THEN {Target(r)} ELSE {}
       IN  /\ raises => r.enabled
           /\ heap' = [heap EXCEPT ![thr[t].obj] = FoldSource(@, r, remote, down)]
           /\ thr' = [thr EXCEPT ![t].pos = @ + 1, ![t].down = @ \cup down]
    /\ index' = heap'[indexObj]
    /\ UNCHANGED <<others, inst, indexDisk, indexObj, lock, held>>

\* save_json outside the with block: the lock is released after the swap.
ReleasedAfterSwap(t) == Nobody

\* The with block goes on after the assignment: t still holds the lock.
LockAfterSwap(t) == t

\* with self.lock: self.index = new_index
Swap(t) ==
    /\ thr[t].pc = "fold"
    /\ thr[t].pos > Len(Iterated(thr[t].snap, repos))
    /\ lock = Nobody
    /\ lock' = LockAfterSwap(t)
    /\ indexObj' = thr[t].obj
    /\ index' = heap[indexObj']
    /\ thr' = [thr EXCEPT ![t].pc = "swapped"]
    /\ heap' = Collect(heap, indexObj', thr', held)
    /\ UNCHANGED <<others, inst, indexDisk, held>>

\* save_json(INDEX_FILE, self.index), the end of the with block and the return.
Save(t) ==
    /\ thr[t].pc = "swapped"
    /\ indexDisk' = save_json(heap[indexObj])
    /\ lock' = IF lock = t THEN Nobody ELSE lock
    /\ thr' = [thr EXCEPT ![t] = IdleThread]
    /\ heap' = Collect(heap, indexObj, thr', held)
    /\ UNCHANGED <<others, inst, index, indexObj, held>>

\* A reader (refresh_fonts_view, _download_fonts_thread) calls get_index.
get_index ==
    /\ lock = Nobody
    /\ held' = indexObj
    /\ heap' = Collect(heap, indexObj, thr, held')
    /\ UNCHANGED <<others, inst, index, indexDisk, indexObj, lock, thr>>

\* The descriptors served while threads run: both owners declare the same
\* identity, each with its own fields and files.
ConcRemote ==
    [t \in Targets |->
        IF t[1] = "a" THEN Descriptor(<<InterRegular>>) ELSE Descriptor(<<InterById>>)]

InitConc ==
    /\ reposDisk \in {save_json(rs) : rs \in {r \in Registries :
                                                \A i \in 1..Len(r) : r[i].enabled}}
    /\ repos = load_json(reposDisk, <<>>)
    /\ indexDisk \in CatalogDocs
    /\ index = load_json(indexDisk, <<>>)
    /\ remote = ConcRemote
    /\ call = [op |-> "init", key |-> "", down |-> {}, repeat |-> FALSE, had |-> {},
               len |-> 0]
    /\ ret = "none"
    /\ chain = NoChain
    /\ ConcInit
    /\ InstInit({NoFile({})})
    /\ dl = IdleDl
    /\ proc = Running

NextConc ==
    \/ \E t \in Threads : Start(t)
    \/ \E t \in Threads, raises \in BOOLEAN : FoldStep(t, raises)
    \/ \E t \in Threads : Swap(t)
    \/ \E t \in Threads : Save(t)
    \/ get_index

SpecConc == InitConc /\ [][NextConc]_vars

(***************************************************************************)
(* A seventh specification for the registry changing under a refresh: one  *)
(* refresh thread at a time runs the steps above while the main thread     *)
(* adds and removes sources (on_add_repo, on_remove_repo).  add_repo       *)
(* appends to the list the registry holds, remove_repo binds a filtered    *)
(* list; the refresh iterates the copy it made.                            *)
(***************************************************************************)
SnapThreads == {"t1"}

InitSnap ==
    /\ reposDisk \in RegistryDocs
    /\ repos = load_json(reposDisk, <<>>)
    /\ indexDisk \in CatalogDocs
    /\ index = load_json(indexDisk, <<>>)
    /\ remote = ConcRemote
    /\ call = [op |-> "init", key |-> "", down |-> {}, repeat |-> FALSE, had |-> {},
               len |-> 0]
    /\ ret = "none"
    /\ chain = NoChain
    /\ ConcInit
    /\ InstInit({NoFile({})})
    /\ dl = IdleDl
    /\ proc = Running

NextSnap ==
    \/ \E o \in Owners, n \in RepoNames, d \in DescriptorPaths :
          add_repo(o, n, d) /\ UNCHANGED aux
    \/ \E o \in Owners, n \in RepoNames :
          remove_repo(RepoKey(o, n)) /\ UNCHANGED aux
    \/ \E t \in SnapThreads : Start(t)
    \/ \E t \in SnapThreads, raises \in BOOLEAN : FoldStep(t, raises)
    \/ \E t \in SnapThreads : Swap(t)
    \/ \E t \in SnapThreads : Save(t)

SpecSnap == InitSnap /\ [][NextSnap]_vars

(***************************************************************************)
(* A fifth specification for the installed set.  Every click on download   *)
(* starts a thread (_download_fonts_thread); once the files of a font are  *)
(* downloaded it sets one record per file in self.installed, dumps the     *)
(* dict to text and writes the text to installed.json, each a step other   *)
(* threads can run between (no lock is taken).  confirm_uninstall does the *)
(* same on the GUI thread after deleting records.  refresh_all runs in one *)
(* step here.                                                              *)
(***************************************************************************)
\* installed[name] = record: the record replaces the one of the same name.
Put(ledger, rec) == {r \in ledger : r.filename # rec.filename} \cup {rec}

\* Path(f_rel).name: the last component of the path, "" when it has none.
Name(f_rel) == IF f_rel = <<>> THEN "" ELSE f_rel[Len(f_rel)]

\* The records lines 396-401 set for a font: one per downloaded file, under
\* the name it was saved as in the temporary folder.
InstallRecords(entry, chosen) ==
    [k \in 1..Len(chosen.files) |->
        [filename |-> Name(chosen.files[k]), source |-> chosen.repo_key,
         id |-> entry.meta.id]]

\* Lines 351-389: the catalog entry i, source s of it chosen, its files
\* downloaded to the temporary folder.
Download(w, i, s) ==
    /\ job[w].pc = "idle"
    /\ i \in 1..Len(index) /\ s \in 1..Len(index[i].sources)
    /\ index[i].sources[s].files # <<>>
    /\ job' = [job EXCEPT ![w] = [pc |-> "record", text |-> {},
                                   todo |-> InstallRecords(index[i], index[i].sources[s])]]
    /\ UNCHANGED <<catalog, others, conc, installed, installedDisk, un>>

\* One pass of "for f in tmp_files".
Record(w) ==
    /\ job[w].pc = "record"
    /\ installed' = Put(installed, Head(job[w].todo))
    /\ job' = [job EXCEPT ![w].todo = Tail(@),
                          ![w].pc = IF Tail(job[w].todo) = <<>> THEN "dump" ELSE "record"]
    /\ UNCHANGED <<catalog, others, conc, installedDisk, un>>

\* json.dumps(self.installed), the argument of write_text.
Dump(w) ==
    /\ job[w].pc = "dump"
    /\ job' = [job EXCEPT ![w].text = installed, ![w].pc = "write"]
    /\ UNCHANGED <<catalog, others, conc, installed, installedDisk, un>>

\* path.write_text(text)
Write(w) ==
    /\ job[w].pc = "write"
    /\ installedDisk' = save_json(job[w].text)
    /\ job' = [job EXCEPT ![w] = IdleJob]
    /\ UNCHANGED <<catalog, others, conc, installed, un>>

FileNames(ledger) == {r.filename : r \in ledger}

\* confirm_uninstall, lines 186-189: the records of the selected file names
\* are deleted.
UnDelete(filenames) ==
    /\ un.pc = "idle"
    /\ filenames # {} /\ filenames \subseteq FileNames(installed)
    /\ installed' = {r \in installed : r.filename \notin filenames}
    /\ un' = [un EXCEPT !.pc = "dump"]
    /\ UNCHANGED <<catalog, others, conc, installedDisk, job>>

UnDump ==
    /\ un.pc = "dump"
    /\ un' = [pc |-> "write", text |-> installed]
    /\ UNCHANGED <<catalog, others, conc, installed, installedDisk, job>>

UnWrite ==
    /\ un.pc = "write"
    /\ installedDisk' = save_json(un.text)
    /\ un' = IdleUn
    /\ UNCHANGED <<catalog, others, conc, installed, job>>

\* The first owner serves a font of one file, the other owner one of two.
InstRemote ==
    [t \in Targets |->
        IF t[1] = "a" THEN Descriptor(<<InterRegular>>) ELSE Descriptor(<<InterById>>)]

InitInst ==
    /\ reposDisk \in {save_json(rs) : rs \in {r \in Registries :
                                                /\ Len(r) = Cardinality(Owners)
                                                /\ \A i \in 1..Len(r) : r[i].enabled}}
    /\ repos = load_json(reposDisk, <<>>)
    /\ indexDisk = NoFile(<<>>)
    /\ index = load_json(indexDisk, <<>>)
    /\ remote = InstRemote
    /\ call = [op |-> "init", key |-> "", down |-> {}, repeat |-> FALSE, had |-> {},
               len |-> 0]
    /\ ret = "none"
    /\ chain = NoChain
    /\ ConcUnused
    /\ InstInit({NoFile({}), Garbled({})})
    /\ dl = IdleDl
    /\ proc = Running

NextInst ==
    \/ \E down \in {{}, Targets} :
          refresh_all(down) /\ UNCHANGED <<chain, conc, installed, job, un, dl, proc>>
    \/ \E w \in Workers, i \in 1..Len(index), s \in 1..Cardinality(Owners \X RepoNames) :
          Download(w, i, s)
    \/ \E w \in Workers : Record(w)
    \/ \E w \in Workers : Dump(w)
    \/ \E w \in Workers : Write(w)
    \/ \E filenames \in SUBSET FileNames(installed) : UnDelete(filenames)
    \/ UnDump
    \/ UnWrite

SpecInst == InitInst /\ [][NextInst]_vars

(***************************************************************************)
(* A sixth specification for a process that is killed and started again.   *)
(* The operations run one after the other as in Spec; the process can be   *)
(* killed inside the save_json of an operation, which leaves the document  *)
(* as Interrupted says, and is then started again from the documents.      *)
(* proc records the document the killed save_json was writing, what it     *)
(* held before and what was being written.                                 *)
(***************************************************************************)
Killed(file, old, new) == [alive |-> FALSE, file |-> file, old |-> old, new |-> new]

\* add_repo up to its save_json, in which the process is killed.
KilledInAdd(owner, repo, descriptor, doc) ==
    /\ proc.alive
    /\ ~KeyExists(repos, RepoKey(owner, repo))
    /\ repos' = Append(repos, RepoEntry(owner, repo, descriptor, TRUE))
    /\ doc \in Interrupted(reposDisk, save(repos'))
    /\ reposDisk' = doc
    /\ proc' = Killed(REPOS_CONFIG, reposDisk, save(repos'))
    /\ UNCHANGED <<index, indexDisk, remote, call, ret, chain, conc, inst, dl>>

\* remove_repo up to its save_json, in which the process is killed.
KilledInRemove(key, doc) ==
    /\ proc.alive
    /\ repos' = WithoutKey(repos, key)
    /\ doc \in Interrupted(reposDisk, save(repos'))
    /\ reposDisk' = doc
    /\ proc' = Killed(REPOS_CONFIG, reposDisk, save(repos'))
    /\ UNCHANGED <<index, indexDisk, remote, call, ret, chain, conc, inst, dl>>

\* refresh_all up to its save_json, in which the process is killed.
KilledInRefresh(down, doc) ==
    /\ proc.alive
    /\ index' = FoldRepos(NewIndex(index), repos, remote, down)
    /\ doc \in Interrupted(indexDisk, save_json(index'))
    /\ indexDisk' = doc
    /\ proc' = Killed(INDEX_FILE, indexDisk, save_json(index'))
    /\ UNCHANGED <<repos, reposDisk, remote, call, ret, chain, conc, inst, dl>>

\* The program is started again: RepoConfig(), Indexer.__init__ and
\* FontManagerGUI.__init__ load the three documents.
Restart ==
    /\ ~proc.alive
    /\ repos' = RepoConfig(reposDisk)
    /\ index' = load_json(indexDisk, <<>>)
    /\ installed' = load_json(installedDisk, {})
    /\ proc' = [proc EXCEPT !.alive = TRUE]
    /\ call' = [op |-> "restart", key |-> "", down |-> {}, repeat |-> FALSE,
                had |-> {}, len |-> 0]
    /\ ret' = "returned"
    /\ UNCHANGED <<reposDisk, indexDisk, installedDisk, remote, chain, conc, job, un, dl>>

\* An installed set an earlier run left.
OldLedger ==
    {[filename |-> "Inter-Regular.ttf", source |-> "a/x", id |-> Inter_Regular]}

InitCrash ==
    /\ reposDisk \in {NoFile(<<>>), Garbled(<<>>)} \cup
                      {save_json(rs) : rs \in {r \in Registries :
                                                \A i \in 1..Len(r) : r[i].enabled}}
    /\ repos = load_json(reposDisk, <<>>)
    /\ indexDisk \in CatalogDocs
    /\ index = load_json(indexDisk, <<>>)
    /\ remote = ConcRemote
    /\ call = [op |-> "init", key |-> "", down |-> {}, repeat |-> FALSE, had |-> {},
               len |-> 0]
    /\ ret = "none"
    /\ chain = NoChain
    /\ ConcUnused
    /\ InstInit({NoFile({}), Garbled({}), save_json(OldLedger)})
    /\ dl = IdleDl
    /\ proc = Running

\* The process is alive, and what an earlier kill left is no longer of interest.
Alive == proc.alive /\ proc' = Running

NextCrash ==
    \/ \E o \in Owners, n \in RepoNames, d \in DescriptorPaths :
          Alive /\ add_repo(o, n, d) /\ UNCHANGED <<chain, conc, inst, dl>>
    \/ \E o \in Owners, n \in RepoNames :
          Alive /\ remove_repo(RepoKey(o, n)) /\ UNCHANGED <<chain, conc, inst, dl>>
    \/ \E down \in SUBSET Targets :
          Alive /\ refresh_all(down) /\ UNCHANGED <<chain, conc, inst, dl>>
    \/ \E o \in Owners, n \in RepoNames, d \in DescriptorPaths :
          \E doc \in Interrupted(reposDisk, save(Append(repos, RepoEntry(o, n, d, TRUE)))) :
              KilledInAdd(o, n, d, doc)
    \/ \E o \in Owners, n \in RepoNames :
          \E doc \in Interrupted(reposDisk, save(WithoutKey(repos, RepoKey(o, n)))) :
              KilledInRemove(RepoKey(o, n), doc)
    \/ \E down \in SUBSET Targets :
          \E doc \in Interrupted(indexDisk,
                                 save_json(FoldRepos(NewIndex(index), repos, remote, down))) :
              KilledInRefresh(down, doc)
    \/ Restart

SpecCrash == InitCrash /\ [][NextCrash]_vars

(***************************************************************************)
(* An eighth specification for a download thread going through its         *)
(* selection (_download_fonts_thread).  One pass of "for fid in fids" is   *)
(* one step here: the lookup in the catalog, the choice of a source, the   *)
(* downloads to the temporary folder and, when none of them raised, the    *)
(* records and the save of installed.json.  dl.last records what the pass  *)
(* did: its outcome, the entry and source it was about, and the downloads  *)
(* that raised.                                                            *)
(***************************************************************************)
\* self.indexer.get_index().get(fid)
Lookup(idx, fid) ==
    IF HasFid(idx, fid)
    THEN Some(idx[CHOOSE i \in 1..Len(idx) : idx[i].fid = fid])
    ELSE Absent

\* sources[0] if len(sources)==1 else self.ask_source_choice(sources): pick is
\* the source the user picks in the dialog, Absent when the dialog is closed.
Chosen(sources, pick) == IF Len(sources) = 1 THEN Some(sources[1]) ELSE pick

\* The sources the dialog offers, and closing it.
ask_source_choice(sources) == {Absent} \cup {Some(sources[s]) : s \in 1..Len(sources)}

\* FontDownloader.download_to_tmp: the files are downloaded in order, each to
\* the temporary folder under its name; the first download that raises ends
\* the call with RuntimeError.  fails are the paths whose download raises.
download_to_tmp(files, fails) ==
    IF \E k \in 1..Len(files) : files[k] \in fails
    THEN [raised |-> TRUE, tmp_files |-> <<>>]
    ELSE [raised |-> FALSE, tmp_files |-> [k \in 1..Len(files) |-> Name(files[k])]]

\* for f in tmp_files: self.installed[f.name] = {...}
RECURSIVE PutAll(_, _)
PutAll(ledger, recs) ==
    IF recs = <<>> THEN ledger ELSE PutAll(Put(ledger, Head(recs)), Tail(recs))

\* What a pass of the loop did.
Passed(outcome, info, chosen, fails) ==
    [outcome |-> outcome, info |-> info, chosen |-> chosen, fails |-> fails]

\* on_download_selected: a thread is started with the selection of the tree.
on_download_selected(sel) ==
    /\ dl.pc = "idle"
    /\ sel # <<>>
    /\ dl' = [IdleDl EXCEPT !.pc = "loop", !.fids = sel]
    /\ UNCHANGED <<catalog, repos, reposDisk, remote, call, ret, chain, proc, conc, inst>>

\* One pass of "for fid in fids", lines 351-403.
DownloadFont(pick, fails) ==
    /\ dl.pc = "loop"
    /\ LET fid == Head(dl.fids)
           info == Lookup(index, fid)
           sources == IF info = Absent THEN <<>> ELSE info[1].sources
           chosen == IF info = Absent THEN Absent ELSE Chosen(sources, pick)
           files == IF chosen = Absent THEN <<>> ELSE chosen[1].files
           got == download_to_tmp(files, fails)
           rest(outcome) ==
               [pc |-> IF Tail(dl.fids) = <<>> THEN "idle" ELSE "loop",
                fids |-> Tail(dl.fids), last |-> Passed(outcome, info, chosen, fails)]
       IN  /\ pick \in ask_source_choice(sources)
           /\ fails \subseteq {files[k] : k \in 1..Len(files)}
           /\ IF info = Absent \/ chosen = Absent \/ files = <<>>
              THEN /\ dl' = rest("skipped")
                   /\ UNCHANGED <<installed, installedDisk>>
              ELSE IF got.raised
              THEN /\ dl' = rest("failed")
                   /\ UNCHANGED <<installed, installedDisk>>
              ELSE /\ installed' = PutAll(installed, InstallRecords(info[1], chosen[1]))
                   /\ installedDisk' = save_json(installed')
                   /\ dl' = rest("installed")
    /\ UNCHANGED <<catalog, repos, reposDisk, remote, call, ret, chain, proc, conc, job, un>>

\* {"id": "Noto", "files": ["static/Noto.ttf", "variable/Noto.ttf"]}
Noto == <<"N", "o", "t", "o">>
NotoFolders ==
    Dict(Some(Noto), Absent, Absent, Absent,
         Some(<< <<"static", "Noto.ttf">>, <<"variable", "Noto.ttf">> >>))

\* The first owner serves a font of one file and one of two files in two
\* folders, the other owner the first font with two files and a font without
\* files.
DownRemote ==
    [t \in Targets |->
        IF t[1] = "a" THEN Descriptor(<<InterRegular, NotoFolders>>)
        ELSE Descriptor(<<InterById, NotoSans>>)]

\* The rows of the fonts tree that can be selected: the fonts of a catalog
\* shown since the start, in the order of the tree.
TreeFids == {FontId(f) : f \in {InterRegular, NotoFolders, NotoSans}}
Selections ==
    {sel \in SeqsUpTo(TreeFids, 2) :
        sel # <<>> /\ \A i, j \in 1..Len(sel) : sel[i] = sel[j] => i = j}

\* The paths the sources of a catalog list.
FilesOf(idx) ==
    UNION {UNION {{idx[i].sources[s].files[k] : k \in 1..Len(idx[i].sources[s].files)} :
                     s \in 1..Len(idx[i].sources)} :
              i \in 1..Len(idx)}

InitDown ==
    /\ reposDisk \in {save_json(rs) : rs \in {r \in Registries :
                                                /\ Len(r) = Cardinality(Owners)
                                                /\ \A i \in 1..Len(r) : r[i].enabled}}
    /\ repos = load_json(reposDisk, <<>>)
    /\ indexDisk \in {NoFile(<<>>), save_json(FoldRepos(<<>>, repos, DownRemote, {}))}
    /\ index = load_json(indexDisk, <<>>)
    /\ remote = DownRemote
    /\ call = [op |-> "init", key |-> "", down |-> {}, repeat |-> FALSE, had |-> {},
               len |-> 0]
    /\ ret = "none"
    /\ chain = NoChain
    /\ ConcUnused
    /\ InstInit({NoFile({}), save_json(OldLedger)})
    /\ dl = IdleDl
    /\ proc = Running

NextDown ==
    \/ \E down \in SUBSET Targets :
          refresh_all(down) /\ UNCHANGED <<chain, conc, installed, job, un, dl, proc>>
    \/ \E sel \in Selections : on_download_selected(sel)
    \/ \E pick \in UNION {ask_source_choice(index[i].sources) : i \in 1..Len(index)}
                   \cup {Absent},
          fails \in SUBSET FilesOf(index) :
          DownloadFont(pick, fails)

SpecDown == InitDown /\ [][NextDown]_vars

(***************************************************************************)
(* What the last refresh_all read.  In a state refresh_all has just left,  *)
(* repos and remote are the registry and the descriptors it read and       *)
(* call.down the downloads that raised.                                    *)
(***************************************************************************)
Refreshed == call.op = "refresh_all"

Fonts(r) == remote[Target(r)].fonts

\* The descriptor of r was downloaded and is valid JSON.
FetchSucceeds(r) == r.enabled /\ Target(r) \notin call.down /\ remote[Target(r)].json
FetchFails(r) == r.enabled /\ ~FetchSucceeds(r)

\* The fetch succeeds and the font list holds JSON objects only.
Completes(r) == FetchSucceeds(r) /\ \A j \in 1..Len(Fonts(r)) : Fonts(r)[j].isdict

\* The catalog lists identity fid with a source record of the source key.
Listed(idx, fid, key) ==
    \E i \in 1..Len(idx) :
        /\ idx[i].fid = fid
        /\ \E s \in 1..Len(idx[i].sources) : idx[i].sources[s].repo_key = key

(***************************************************************************)
(* C1 (as claimed): when the fetch of some enabled sources fails,          *)
(* refresh_all returns normally and every font entry of each other enabled *)
(* source whose descriptor was downloaded and is valid JSON is in the      *)
(* catalog with a source record of that source.                            *)
(***************************************************************************)
C1_EveryFetchedEntryListed ==
    (Refreshed /\ \E i \in 1..Len(repos) : FetchFails(repos[i])) =>
        /\ ret = "returned"
        /\ \A i \in 1..Len(repos) :
              FetchSucceeds(repos[i]) =>
                  \A j \in 1..Len(Fonts(repos[i])) :
                      Fonts(repos[i])[j].isdict =>
                          Listed(index, FontId(Fonts(repos[i])[j]), repos[i].key)

(***************************************************************************)
(* C1 (amended): refresh_all returns normally whichever sources fail, and  *)
(* every font entry of each enabled source whose processing completes      *)
(* (download, JSON parsing and the whole font list) is in the catalog with *)
(* a source record of that source.                                         *)
(***************************************************************************)
C1_EveryCompletedEntryListed ==
    Refreshed =>
        /\ ret = "returned"
        /\ \A i \in 1..Len(repos) :
              Completes(repos[i]) =>
                  \A j \in 1..Len(Fonts(repos[i])) :
                      Listed(index, FontId(Fonts(repos[i])[j]), repos[i].key)

\* A refresh in which one source failed to fetch and another, after it in the
\* registry, completed with entries.
C1_Witness ==
    /\ Refreshed
    /\ Len(repos) = 2
    /\ FetchFails(repos[1])
    /\ Completes(repos[2])
    /\ Fonts(repos[2]) # <<>>
    /\ Listed(index, FontId(Fonts(repos[2])[1]), repos[2].key)

(***************************************************************************)
(* C2: if processing of an enabled source fails at any point (download,    *)
(* JSON parsing or inside its font list), the catalog, in memory and on    *)
(* disk, is the one a refresh of the same registry with that source        *)
(* disabled produces.                                                      *)
(***************************************************************************)
Disabled(rs, i) == [rs EXCEPT ![i].enabled = FALSE]

C2_FailureIsAbsence ==
    Refreshed =>
        \A i \in 1..Len(repos) :
            Raises(repos[i], remote, call.down) =>
                /\ index = FoldRepos(<<>>, Disabled(repos, i), remote, call.down)
                /\ indexDisk = save_json(index)
                /\ repos[i].key \notin SourceKeys(index)

(***************************************************************************)
(* C3: in every catalog refresh_all produces from a registry with unique   *)
(* keys, each entry has a non-empty sources list and no two source records *)
(* of one entry carry the same repo_key.                                   *)
(***************************************************************************)
C3_SourceRecordsDistinct ==
    (Refreshed /\ DistinctKeys(repos)) =>
        \A i \in 1..Len(index) :
            /\ index[i].sources # <<>>
            /\ \A s, t \in 1..Len(index[i].sources) :
                  index[i].sources[s].repo_key = index[i].sources[t].repo_key => s = t

(***************************************************************************)
(* C4: refresh_all called twice in sequence, the registry, the descriptors *)
(* and the outcome of each download unchanged, leaves the same catalog in  *)
(* memory and the same catalog document both times.                        *)
(***************************************************************************)
C4_RefreshIdempotent ==
    [][(call.op = "refresh_all" /\ call'.op = "refresh_all" /\ call'.down = call.down)
          => (index' = index /\ indexDisk' = indexDisk)]_vars

\* A second refresh in a row that leaves a catalog of two identities, one of
\* them offered by two sources.
C4_Witness ==
    /\ Refreshed
    /\ call.repeat
    /\ Len(index) = 2
    /\ \E i \in 1..Len(index) : Len(index[i].sources) = 2
    /\ indexDisk = save_json(index)

(***************************************************************************)
(* The raw entries the last refresh_all folded: of each enabled source it  *)
(* fetched, the entries before the first one that is no JSON object.       *)
(***************************************************************************)
Seen(r) ==
    IF FetchSucceeds(r)
    THEN {j \in 1..Len(Fonts(r)) : \A h \in 1..j : Fonts(r)[h].isdict}
    ELSE {}

\* <<i, j>>: entry j of the source at position i of the registry.
Encountered ==
    UNION {{<<i, j>> : j \in Seen(repos[i])} : i \in 1..Len(repos)}

FontAt(p) == Fonts(repos[p[1]])[p[2]]

\* p is folded no later than q.
Before(p, q) == p[1] < q[1] \/ (p[1] = q[1] /\ p[2] <= q[2])

\* No source stops in the middle of its font list.
NoneStopsMidList ==
    \A i \in 1..Len(repos) : FetchSucceeds(repos[i]) => Completes(repos[i])

(***************************************************************************)
(* C5: when two distinct enabled sources each declare a raw entry of one   *)
(* identity, the catalog holds exactly one entry of that identity, whose   *)
(* sources list has one record per declaring source, in registry order,    *)
(* each with a file list that source declared for the identity.            *)
(***************************************************************************)
Declaring(fid) ==
    {i \in 1..Len(repos) : \E p \in Encountered : p[1] = i /\ FontId(FontAt(p)) = fid}

C5_OneRecordPerSource ==
    (Refreshed /\ DistinctKeys(repos) /\ NoneStopsMidList) =>
        \A fid \in {FontId(FontAt(p)) : p \in Encountered} :
            Cardinality(Declaring(fid)) >= 2 =>
                /\ Cardinality({e \in 1..Len(index) : index[e].fid = fid}) = 1
                /\ \A e \in 1..Len(index) :
                      index[e].fid = fid =>
                          /\ Len(index[e].sources) = Cardinality(Declaring(fid))
                          /\ \A i \in Declaring(fid) :
                                LET s   == Cardinality({h \in Declaring(fid) : h <= i})
                                    rec == index[e].sources[s]
                                IN  /\ rec.repo_key = repos[i].key
                                    /\ \E p \in Encountered :
                                          /\ p[1] = i
                                          /\ FontId(FontAt(p)) = fid
                                          /\ rec.files = Get(FontAt(p).files, <<>>)

(***************************************************************************)
(* C6 (as claimed): the catalog key of a raw entry is its id when an id is *)
(* given, and otherwise family + "_" + name with every space replaced by   *)
(* an underscore, a missing family or name counting as empty; it depends   *)
(* on (id, family, name) alone, and one source declaring family "Inter",   *)
(* name "Regular" yields exactly one entry, keyed "Inter_Regular".         *)
(***************************************************************************)
Underscored(s) == [i \in 1..Len(s) |-> IF s[i] = " " THEN "_" ELSE s[i]]

DerivedKey(f) ==
    Underscored((IF f.family = Absent THEN <<>> ELSE f.family[1]) \o <<"_">>
                \o (IF f.name = Absent THEN <<>> ELSE f.name[1]))

KeyAsClaimed(f) == IF f.id # Absent THEN f.id[1] ELSE DerivedKey(f)

\* The key when an id that is given but empty counts as no id.
KeyAmended(f) == IF f.id # Absent /\ Len(f.id[1]) > 0 THEN f.id[1] ELSE DerivedKey(f)

ScenarioA ==
    (/\ Len(repos) = 1
     /\ Completes(repos[1])
     /\ Fonts(repos[1]) = <<InterRegular>>) =>
        /\ Len(index) = 1
        /\ index[1].fid = <<"I", "n", "t", "e", "r", "_", "R", "e", "g", "u", "l", "a", "r">>
        /\ Len(index[1].sources) = 1
        /\ index[1].sources[1].repo_key = repos[1].key
        /\ index[1].sources[1].files = << <<"Inter-Regular.ttf">> >>

C6_KeyAsClaimed ==
    Refreshed =>
        /\ \A p \in Encountered : Listed(index, KeyAsClaimed(FontAt(p)), repos[p[1]].key)
        /\ \A e \in 1..Len(index) :
              \E p \in Encountered : index[e].fid = KeyAsClaimed(FontAt(p))
        /\ ScenarioA

(***************************************************************************)
(* C6 (amended): the catalog key of a raw entry is its id when a non-empty *)
(* id is given, and otherwise (no id, or an empty one) family + "_" + name *)
(* with every space replaced by an underscore, a missing family or name    *)
(* counting as empty; it depends on (id, family, name) alone, and one      *)
(* source declaring family "Inter", name "Regular" yields exactly one      *)
(* entry, keyed "Inter_Regular".                                           *)
(***************************************************************************)
C6_KeyOfEntry ==
    Refreshed =>
        /\ \A p \in Encountered : Listed(index, KeyAmended(FontAt(p)), repos[p[1]].key)
        /\ \A e \in 1..Len(index) :
              /\ \E p \in Encountered : index[e].fid = KeyAmended(FontAt(p))
              /\ \A d \in 1..Len(index) : index[d].fid = index[e].fid => d = e
        /\ ScenarioA

\* A refresh that folded an entry with an id and, after it in the same
\* descriptor, one with an empty id and a space in its family.
C6_Witness ==
    /\ Refreshed
    /\ \E p, q \in Encountered :
          /\ p[1] = q[1] /\ p[2] < q[2]
          /\ FontAt(p).id # Absent /\ FontAt(p).id[1] # <<>>
          /\ FontAt(q).id = Some(<<>>)
          /\ FontAt(q).family # Absent
          /\ \E c \in 1..Len(FontAt(q).family[1]) : FontAt(q).family[1][c] = " "
          /\ Listed(index, KeyAmended(FontAt(q)), repos[q[1]].key)
          /\ KeyAmended(FontAt(q)) # KeyAsClaimed(FontAt(q))

(***************************************************************************)
(* C7: the meta of a catalog entry is the snapshot of the first raw entry  *)
(* of its identity that the refresh folded, sources in registry order and  *)
(* entries in descriptor order; every later raw entry of the identity adds *)
(* a source record and leaves meta as it is.                               *)
(***************************************************************************)
C7_FirstSeenMeta ==
    Refreshed =>
        \A e \in 1..Len(index) :
            LET ps == {p \in Encountered : FontId(FontAt(p)) = index[e].fid}
            IN  /\ ps # {}
                /\ \A p \in ps :
                      (\A q \in ps : Before(p, q)) =>
                          /\ index[e].meta.name = FontAt(p).name
                          /\ index[e].meta.family = FontAt(p).family
                          /\ index[e].meta.style = FontAt(p).style
                          /\ index[e].meta.version = FontAt(p).version
                          /\ index[e].meta.license = FontAt(p).license
                          /\ index[e].meta.files = Get(FontAt(p).files, <<>>)
                          /\ index[e].meta.id = index[e].fid
                /\ Len(index[e].sources) = Cardinality(ps)

\* An identity that a later source declares with other fields than the first.
C7_Witness ==
    /\ Refreshed
    /\ \E e \in 1..Len(index) :
          \E p, q \in Encountered :
              /\ FontId(FontAt(p)) = index[e].fid
              /\ FontId(FontAt(q)) = index[e].fid
              /\ p[1] < q[1]
              /\ FontAt(p).style # FontAt(q).style
              /\ index[e].meta.style = FontAt(p).style
              /\ Len(index[e].sources) >= 2

(***************************************************************************)
(* C8: the catalog after refresh_all, in memory and on disk, holds source  *)
(* records of sources that are in the registry, enabled and fetched in     *)
(* this refresh only, and no entry without a source record, whatever the   *)
(* catalog before held.                                                    *)
(***************************************************************************)
C8_NothingCarriedOver ==
    Refreshed =>
        /\ \A k \in SourceKeys(index) \cup SourceKeys(load_json(indexDisk, <<>>)) :
              \E i \in 1..Len(repos) : repos[i].key = k /\ FetchSucceeds(repos[i])
        /\ \A e \in 1..Len(index) : index[e].sources # <<>>
        /\ load_json(indexDisk, <<>>) = index
        /\ indexDisk.exists /\ indexDisk.parses

\* The catalog before held records of three kinds of source: one the
\* registry no longer lists, one it lists as disabled, one whose download
\* raised in this refresh.
Gone(k) ==
    \/ ~KeyExists(repos, k)
    \/ \E i \in 1..Len(repos) : repos[i].key = k /\ ~repos[i].enabled
    \/ \E i \in 1..Len(repos) : repos[i].key = k /\ FetchFails(repos[i])

C8_Witness ==
    /\ Refreshed
    /\ index # <<>>
    /\ \E k \in call.had : Gone(k) /\ k \notin SourceKeys(index)

(***************************************************************************)
(* C9: add_repo of a key the registry holds raises and leaves the registry *)
(* list and document as they are; the registry, which starts from a list   *)
(* without duplicate keys (the empty one included), never holds two        *)
(* records of one key.                                                     *)
(***************************************************************************)
C9_DuplicateAddRejected ==
    /\ [](DistinctKeys(repos) /\ DistinctKeys(load_json(reposDisk, <<>>)))
    /\ [][(call'.op = "add_repo" /\ KeyExists(repos, call'.key))
             => (ret' = "ValueError" /\ repos' = repos /\ reposDisk' = reposDisk)]_vars

\* Scenario C: the second add_repo of one key in a row, the registry at one
\* record.
C9_Witness ==
    /\ call.op = "add_repo"
    /\ call.repeat
    /\ ret = "ValueError"
    /\ call.len = 1
    /\ Len(repos) = 1
    /\ repos[1].key = call.key
    /\ reposDisk = save_json(repos)

C11_RegistryPersisted ==
    (call.op \in {"add_repo", "remove_repo"} /\ ret = "returned")
        => /\ reposDisk.exists /\ reposDisk.parses
           /\ reposDisk.data = repos
           /\ RepoConfig(reposDisk) = repos

\* A source was added behind another one and the document holds both.
C11_Witness ==
    /\ call.op = "add_repo" /\ ret = "returned"
    /\ Len(repos) = 2
    /\ RepoConfig(reposDisk) = repos

(***************************************************************************)
(* Removing a source and adding it again.  In a step to stage 4 the        *)
(* catalog before the step is the one the refresh before the removal       *)
(* built (remove_repo and add_repo leave the catalog alone) and the        *)
(* catalog after it the one built with the source added again.             *)
(***************************************************************************)
Fids(idx) == {idx[i].fid : i \in 1..Len(idx)}

EntryOf(idx, fid) == idx[CHOOSE i \in 1..Len(idx) : idx[i].fid = fid]

\* The source records a source has in the entry of an identity, in order.
RecordsOf(idx, fid, key) ==
    LET from(s) == s.repo_key = key
    IN  IF HasFid(idx, fid) THEN SelectSeq(EntryOf(idx, fid).sources, from) ELSE <<>>

\* The identities a source has a record in.
Contributed(idx, key) == {fid \in Fids(idx) : RecordsOf(idx, fid, key) # <<>>}

\* Only this source has records in the entry.
SoleSource(idx, fid, key) ==
    \A s \in 1..Len(EntryOf(idx, fid).sources) :
        EntryOf(idx, fid).sources[s].repo_key = key

(***************************************************************************)
(* C12 (as claimed): after remove_repo of a source (an enabled one here),  *)
(* add_repo of the same owner, repo and descriptor path and a refresh, the *)
(* source contributes what it contributed in the refresh before the        *)
(* removal: the same entries, with the same meta and the same source       *)
(* records of its own.                                                     *)
(***************************************************************************)
C12_SameContributions ==
    [][(chain'.stage = 4 /\ chain.enabled) =>
          /\ Contributed(index', chain.key) = Contributed(index, chain.key)
          /\ \A fid \in Contributed(index, chain.key) \cup Contributed(index', chain.key) :
                /\ RecordsOf(index', fid, chain.key) = RecordsOf(index, fid, chain.key)
                /\ HasFid(index, fid) /\ HasFid(index', fid)
                /\ EntryOf(index', fid).meta = EntryOf(index, fid).meta]_vars

(***************************************************************************)
(* C12 (amended): for a source that was enabled, the refresh after the     *)
(* re-add builds a catalog with the same identities and, in each entry,    *)
(* the same source records of every source in the same relative order per  *)
(* source; the meta of an entry that only the re-added source declares is  *)
(* the same; and when the source was the last of the registry the whole    *)
(* catalog and its document are the same.  (The re-added source is now the *)
(* last of the registry: the meta of an entry another source declares too, *)
(* and the order of the records of different sources, follow that order.)  *)
(***************************************************************************)
C12_SameRecordsPerSource ==
    [][(chain'.stage = 4 /\ chain.enabled) =>
          /\ Fids(index') = Fids(index)
          /\ \A fid \in Fids(index) \cup Fids(index') :
                /\ \A k \in {RepoKey(o, n) : o \in Owners, n \in RepoNames} :
                      RecordsOf(index', fid, k) = RecordsOf(index, fid, k)
                /\ (HasFid(index, fid) /\ SoleSource(index, fid, chain.key))
                      => /\ HasFid(index', fid)
                         /\ EntryOf(index', fid).meta = EntryOf(index, fid).meta
          /\ chain.last => (index' = index /\ indexDisk' = indexDisk)]_vars

\* The re-added source stood before another one that declares the same
\* identity, and the refresh after the re-add has listed both.
C12_Witness ==
    /\ chain.stage = 4 /\ chain.enabled /\ ~chain.last
    /\ \E fid \in Contributed(index, chain.key) : ~SoleSource(index, fid, chain.key)

(***************************************************************************)
(* Readers and refresh threads.                                            *)
(***************************************************************************)
\* Thread t is between the first pass of the loop and the commit.
Building(t) == thr[t].pc = "fold"

\* Thread t is inside refresh_all.
InFlight(t) == thr[t].pc # "idle"

\* The catalogs a complete fold over a registry can build, whatever downloads
\* raise.
Complete(rs) == {FoldRepos(<<>>, rs, remote, down) : down \in SUBSET Targets}

(***************************************************************************)
(* C13: at any interleaving with running refreshes, the mapping get_index  *)
(* returned to a reader is a complete catalog: the one loaded at start or  *)
(* one a refresh built in full and committed, never the mapping a refresh  *)
(* is still building; self.index never refers to a mapping under           *)
(* construction either; and no step of a later refresh changes a mapping   *)
(* a reader holds.                                                         *)
(***************************************************************************)
C13_ReaderSeesWholeCatalog ==
    /\ [](\A t \in Threads : Building(t) => thr[t].obj \notin {held, indexObj})
    /\ [](held # NoObj =>
             heap[held] \in Complete(repos) \cup {load_json(d, <<>>) : d \in CatalogDocs})
    /\ [][(held # NoObj /\ held' = held) => heap'[held] = heap[held]]_vars
    /\ [][held' # held => (held' = indexObj /\ heap'[held'] = index)]_vars

\* A reader holds the catalog one refresh committed while the next refresh
\* has committed another one and a third is part of the way through its fold.
C13_Witness ==
    /\ held # NoObj /\ held # indexObj
    /\ heap[held] # <<>> /\ heap[held] # heap[indexObj]
    /\ \E t \in Threads :
          /\ Building(t) /\ thr[t].pos = 2 /\ Len(thr[t].snap) = 2
          /\ heap[thr[t].obj] # <<>>

(***************************************************************************)
(* C14 (as claimed): at most one refresh is in flight at a time: no two    *)
(* threads are inside refresh_all, between its first line and its return,  *)
(* at once.                                                                *)
(***************************************************************************)
C14_OneRefreshInFlight ==
    \A t, u \in Threads : (InFlight(t) /\ InFlight(u)) => t = u

(***************************************************************************)
(* C17: a refresh_all with no enabled source in the registry, or with      *)
(* every enabled source failing to fetch (its download raises or its       *)
(* document is not JSON), returns normally and leaves the empty catalog in *)
(* memory and in index.json, whatever the catalog before it held.          *)
(***************************************************************************)
C17_NothingFetchedEmptyCatalog ==
    (Refreshed /\ \A i \in 1..Len(repos) : ~repos[i].enabled \/ FetchFails(repos[i]))
        => /\ ret = "returned"
           /\ index = <<>>
           /\ indexDisk = save_json(<<>>)
           /\ load_json(indexDisk, StaleCatalog) = <<>>

\* Every source is enabled and fails, one of them by a download that raises,
\* and the catalog before the refresh listed fonts.
C17_Witness ==
    /\ Refreshed /\ call.had # {} /\ call.down # {}
    /\ Len(repos) = 2
    /\ \A i \in 1..Len(repos) : FetchFails(repos[i])
    /\ index = <<>> /\ indexDisk = save_json(<<>>)

(***************************************************************************)
(* The installed set.                                                      *)
(***************************************************************************)
\* No download thread and no confirm_uninstall is part of the way through an
\* update of the installed set.
AllFinished == (\A w \in Workers : job[w].pc = "idle") /\ un.pc = "idle"

(***************************************************************************)
(* C18 (as claimed): under any interleaving of download threads and        *)
(* confirm_uninstall, once all of them have finished the document          *)
(* installed.json holds the in-memory installed set.                       *)
(***************************************************************************)
C18_InstalledPersisted ==
    AllFinished => load_json(installedDisk, {}) = installed

(***************************************************************************)
(* C19: refresh_all changes the catalog only: the installed set, in memory *)
(* and in installed.json, and the registry, in memory and in repos.json,   *)
(* are after a refresh what they were before it, also when the refresh     *)
(* drops the identity or the source of an installed record from the        *)
(* catalog.  (A step of refresh_all is one that satisfies refresh_all and   *)
(* in which no download thread and no confirm_uninstall moves.)            *)
(***************************************************************************)
C19_RefreshKeepsInstalledAndRegistry ==
    [][(job' = job /\ un' = un /\ \E down \in SUBSET Targets : refresh_all(down)) =>
          /\ installed' = installed /\ installedDisk' = installedDisk
          /\ repos' = repos /\ reposDisk' = reposDisk]_vars

\* A refresh has emptied the catalog; the installed set still records, in
\* memory and on disk, files of an identity and a source that were in it.
C19_Witness ==
    /\ Refreshed /\ call.had # {} /\ index = <<>>
    /\ AllFinished
    /\ \E r \in installed : r.source \in call.had
    /\ installedDisk = save_json(installed)

(***************************************************************************)
(* A process killed inside save_json, and the next start.                  *)
(***************************************************************************)
\* The program has just been started after a kill.
Restarted == call.op = "restart" /\ proc.alive /\ proc.file # ""

\* The program has just been started, for the first time or again.
Started == call.op \in {"init", "restart"} /\ proc.alive

\* json.loads accepts the text of the document.
Valid(doc) == doc.exists /\ doc.parses

(***************************************************************************)
(* C15 (as claimed): when the process is killed at any point inside        *)
(* save_json, the next load_json of that document returns what the         *)
(* document held before the save_json or what was being written, in full,  *)
(* never the default of an unreadable document.                            *)
(***************************************************************************)
C15_OldOrNewAfterKill ==
    Restarted =>
        /\ proc.file = REPOS_CONFIG
              => repos \in {load_json(proc.old, <<>>), proc.new.data}
        /\ proc.file = INDEX_FILE
              => index \in {load_json(proc.old, <<>>), proc.new.data}

(***************************************************************************)
(* C16: load_json never raises: for a document that does not exist or      *)
(* that json.loads rejects it returns the given default, and for any other *)
(* document its data.  So whatever the three documents hold, RepoConfig,   *)
(* Indexer and the installed set start with the data of a valid document   *)
(* and with the empty list or dict otherwise.                              *)
(***************************************************************************)
C16_LoadNeverRaises ==
    Started =>
        /\ repos = IF Valid(reposDisk) THEN reposDisk.data ELSE <<>>
        /\ index = IF Valid(indexDisk) THEN indexDisk.data ELSE <<>>
        /\ installed = IF Valid(installedDisk) THEN installedDisk.data ELSE {}

\* The process was killed while it wrote a registry of two sources over one
\* of one source; the file is cut short, and the program has started again
\* with the empty registry and with the catalog and the installed set of the
\* documents left whole.
C16_Witness ==
    /\ Restarted /\ proc.file = REPOS_CONFIG
    /\ reposDisk.exists /\ ~reposDisk.parses
    /\ Len(proc.old.data) = 1 /\ Len(proc.new.data) = 2
    /\ repos = <<>>
    /\ ~indexDisk.exists /\ index = <<>>
    /\ Valid(installedDisk) /\ installed = OldLedger

(***************************************************************************)
(* C20: whenever no thread holds the Indexer lock, the document index.json *)
(* holds the in-memory catalog: loading it gives the mapping self.index    *)
(* refers to, the one get_index returns, under any interleaving of         *)
(* refreshes.  (Before the first commit the document may be missing or     *)
(* unreadable, and the catalog is then the empty one load_json gave.)      *)
(***************************************************************************)
C20_DiskIsIndexOutsideLock ==
    lock = Nobody =>
        /\ load_json(indexDisk, <<>>) = index
        /\ load_json(indexDisk, <<>>) = heap[indexObj]
        /\ Valid(indexDisk) => indexDisk = save_json(index)

\* One refresh has committed a catalog; another one has built a different
\* catalog and is about to take the lock.
C20_Witness ==
    /\ lock = Nobody
    /\ index \notin {<<>>, StaleCatalog}
    /\ indexDisk = save_json(index)
    /\ \E t \in Threads :
          /\ Building(t) /\ thr[t].pos > Len(thr[t].snap)
          /\ heap[thr[t].obj] \notin {<<>>, index}

(***************************************************************************)
(* The registry changing under a refresh (SpecSnap).                       *)
(***************************************************************************)
\* The keys of the enabled sources of a registry whose download did not raise.
EnabledKeys(rs, down) ==
    {rs[i].key : i \in {j \in 1..Len(rs) : rs[j].enabled /\ Target(rs[j]) \notin down}}

\* What the refresh of thread t is to commit: the fold of the registry as it
\* was when the refresh started, without the downloads that raised.
FoldedAtStart(t) == FoldRepos(<<>>, thr[t].snap, remote, thr[t].down)

\* C21: a refresh folds exactly the sources that were enabled in the registry
\* when refresh_all started.  Once the thread has bound its catalog, the
\* catalog is the fold of the registry as it was at the start, and the sources
\* it holds records of are the sources enabled then whose download did not
\* raise, whatever add_repo and remove_repo did to the registry in between;
\* and the document the thread then writes to index.json is that catalog.
C21_FoldsRegistryAtStart ==
    /\ [](\A t \in SnapThreads :
            thr[t].pc = "swapped" =>
                /\ index = FoldedAtStart(t)
                /\ SourceKeys(index) = EnabledKeys(thr[t].snap, thr[t].down))
    /\ [][\A t \in SnapThreads :
            (thr[t].pc = "swapped" /\ thr'[t].pc = "idle") =>
                indexDisk' = save_json(FoldedAtStart(t))]_vars

\* A refresh has bound its catalog after a source it folded was removed from
\* the registry and another source was added: the catalog holds records of the
\* removed source and none of the added one.
C21_Witness ==
    \E t \in SnapThreads :
        /\ thr[t].pc = "swapped"
        /\ \E key \in SourceKeys(index) : ~KeyExists(repos, key)
        /\ \E i \in 1..Len(repos) :
              /\ repos[i].enabled
              /\ ~KeyExists(thr[t].snap, repos[i].key)
              /\ repos[i].key \notin SourceKeys(index)

(***************************************************************************)
(* The installed records of one font (SpecDown).                           *)
(***************************************************************************)
\* The step is a pass of the download thread over a font of which a source
\* with files was chosen.
PassOverFont ==
    /\ dl.pc = "loop" /\ dl' # dl
    /\ dl'.last.chosen # Absent
    /\ dl'.last.chosen[1].files # <<>>

\* The download of a file of the chosen source raised: the installed set and
\* installed.json are as before and the thread is at the next selected font.
FailureLeavesNothing ==
    (PassOverFont /\ dl'.last.fails # {}) =>
        /\ installed' = installed
        /\ installedDisk' = installedDisk
        /\ dl'.fids = Tail(dl.fids)
        /\ dl'.pc = IF dl'.fids = <<>> THEN "idle" ELSE "loop"

\* The installed records that carry the name of a file of the chosen source.
RecordsOfFiles(ledger, files) ==
    {r \in ledger : \E k \in 1..Len(files) : r.filename = Name(files[k])}

\* No download raised: each file of the chosen source has its record, under
\* its name, with the key of the source and the id of the catalog entry.
EachFileRecorded ==
    (PassOverFont /\ dl'.last.fails = {}) =>
        LET info == dl'.last.info[1]
            chosen == dl'.last.chosen[1]
        IN  \A k \in 1..Len(chosen.files) :
                [filename |-> Name(chosen.files[k]), source |-> chosen.repo_key,
                 id |-> info.meta.id] \in installed'

\* No download raised: there are as many records of the files as files.
OneRecordPerFile ==
    (PassOverFont /\ dl'.last.fails = {}) =>
        LET files == dl'.last.chosen[1].files
        IN  Cardinality(RecordsOfFiles(installed', files)) = Len(files)

\* C22: the installed records of one font are all-or-nothing.  When the
\* download of a file of the chosen source fails, no record is created,
\* installed.json is not written and the thread goes on with the next
\* selected font; when all downloads succeed, exactly one record per file is
\* created, keyed by the file's name, with the chosen source's key and the
\* catalog entry's id.
C22_AllOrNothing ==
    [][FailureLeavesNothing /\ EachFileRecorded /\ OneRecordPerFile]_vars

\* What holds of the code instead: all of the above but the count, the records
\* of files of the same name in different folders being one record.
C22_AllOrNothingPerName ==
    [][/\ FailureLeavesNothing
       /\ EachFileRecorded
       /\ (PassOverFont /\ dl'.last.fails = {}) =>
             LET files == dl'.last.chosen[1].files
             IN  Cardinality(RecordsOfFiles(installed', files))
                    = Cardinality({Name(files[k]) : k \in 1..Len(files)})]_vars

\* A pass has failed on the second file of a font of two files, and a pass
\* has recorded a font of two files.
C22_FailedPass ==
    /\ dl.last.outcome = "failed"
    /\ Len(dl.last.chosen[1].files) = 2
    /\ dl.last.chosen[1].files[1] \notin dl.last.fails
C22_InstalledPass ==
    /\ dl.last.outcome = "installed"
    /\ Len(dl.last.chosen[1].files) = 2

====
